---- MODULE Spec2Model ----
(***************************************************************************)
(* A model of the incomfortclient library (Gateway -> Heater -> Room) for  *)
(* the InterGas InComfort Lan2RF gateway, src/src/incomfortclient.         *)
(*                                                                         *)
(* Conventions of the model                                                *)
(*   - Python's None is the empty tuple <<>>; a non-None value v of an     *)
(*     Optional is the one-element tuple <<v>>.                            *)
(*   - A float x obtained as n / 100.0 is the integer n, its number of     *)
(*     hundredths (n |-> n / 100.0 is one-to-one on the integers used).    *)
(*   - A dict is a function on a finite set of strings.                    *)
(*   - A call that may raise yields [exc |-> <class name or "">, val |-> v]*)
(*   - A url is the string the f-string builds.                            *)
(***************************************************************************)
EXTENDS Integers, Sequences, FiniteSets, TLC

VARIABLES
    gw_heaters,     \* Gateway._heaters: None, or Some(list of Heater objects)
    gen,            \* how many heater lists were built (identity of the Heater objects)
    fetched,        \* history: the raw heaterlist the cached list was built from
    unforcedReqs,   \* history: heaterlist.json requests issued by calls without force_refresh
    escaped,        \* history: a heaters() call raised neither InvalidGateway nor InvalidHeaterList
    call,           \* the last call made by the caller, with what the transport gave it
    result,         \* how that call ended: the value returned or the exception raised
    requests,       \* the urls that call requested, in order
    dec,            \* the input and output of the pure decoders (SpecDecode)
    pending         \* the update() calls suspended in their request, in the order they began

vars == <<gw_heaters, gen, fetched, unforcedReqs, escaped, call, result, requests, dec,
          pending>>

----------------------------------------------------------------------------
(* Bounds of the model *)

MaxSlots == 2           \* slots of a heaterlist response
MaxGen == 2             \* heater lists built per Gateway
MaxUnforcedReqs == 2    \* counted requests of calls without force_refresh
MaxIO == 40             \* values of the IO bitmask given to the flag decoders
MaxCode == 256          \* displ_code values given to update(): -MaxCode..MaxCode
MaxPending == 2         \* update() calls suspended in their request at one time
TargetMargin == 100     \* hundredths below 5.0 and above 30.0 given to set_override()

----------------------------------------------------------------------------
(* Values *)

None == <<>>
Some(v) == <<v>>

Ret(v) == [exc |-> "", val |-> v]
Raise(e) == [exc |-> e, val |-> None]

EmptyDict == [k \in {} |-> 0]

Byte == 0..255

----------------------------------------------------------------------------
(* Module constants *)

NULL_SERIAL_NO == "000W00000"
HEATERLIST == "heaterlist"

\* (2**15 - 1) / 100.0, in hundredths
INVALID_VALUE == 2^15 - 1

BITMASK_BURNER == 8
BITMASK_FAIL == 1
BITMASK_PUMP == 2
BITMASK_TAP == 4

\* class DisplayCode(IntEnum): value :> name
DisplayCode ==
    (-1 :> "UNKNOWN") @@ (0 :> "OPENTHERM") @@ (15 :> "BOILER_EXT") @@
    (24 :> "FROST") @@ (37 :> "CENTRAL_HEATING_RF") @@ (51 :> "TAPWATER_INT") @@
    (85 :> "SENSOR_TEST") @@ (102 :> "CENTRAL_HEATING") @@ (126 :> "STANDBY") @@
    (127 :> "OFF") @@ (153 :> "POSTRUN_BOYLER") @@ (170 :> "SERVICE") @@
    (204 :> "TAPWATER") @@ (231 :> "POSTRUN_CH") @@ (240 :> "BOILER_INT") @@
    (255 :> "BUFFER")

\* class FaultCode(IntEnum): value :> name
FaultCode ==
    (-1 :> "UNKNOWN") @@ (0 :> "SENSOR_FAULT_AFTER_SELF_CHECK_E0") @@
    (1 :> "CV_TEMPERATURE_TOO_HIGH_E1") @@ (2 :> "S1_AND_S2_INTERCHANGED_E2") @@
    (4 :> "NO_FLAME_SIGNAL_E4") @@ (5 :> "POOR_FLAME_SIGNAL_E5") @@
    (6 :> "FLAME_DETECTION_FAULT_E6") @@ (8 :> "INCORRECT_FAN_SPEED_E8") @@
    (10 :> "SENSOR_FAULT_S1_E10") @@ (11 :> "SENSOR_FAULT_S1_E11") @@
    (12 :> "SENSOR_FAULT_S1_E12") @@ (13 :> "SENSOR_FAULT_S1_E13") @@
    (14 :> "SENSOR_FAULT_S1_E14") @@ (20 :> "SENSOR_FAULT_S2_E20") @@
    (21 :> "SENSOR_FAULT_S2_E21") @@ (22 :> "SENSOR_FAULT_S2_E22") @@
    (23 :> "SENSOR_FAULT_S2_E23") @@ (24 :> "SENSOR_FAULT_S2_E24") @@
    (27 :> "SHORTCUT_OUTSIDE_SENSOR_TEMPERATURE_E27") @@
    (29 :> "GAS_VALVE_RELAY_FAULTY_E29") @@ (30 :> "GAS_VALVE_RELAY_FAULTY_E30")

\* str.lower() on the names of the two enums
lower ==
    ("UNKNOWN" :> "unknown") @@ ("OPENTHERM" :> "opentherm") @@
    ("BOILER_EXT" :> "boiler_ext") @@ ("FROST" :> "frost") @@
    ("CENTRAL_HEATING_RF" :> "central_heating_rf") @@
    ("TAPWATER_INT" :> "tapwater_int") @@ ("SENSOR_TEST" :> "sensor_test") @@
    ("CENTRAL_HEATING" :> "central_heating") @@ ("STANDBY" :> "standby") @@
    ("OFF" :> "off") @@ ("POSTRUN_BOYLER" :> "postrun_boyler") @@
    ("SERVICE" :> "service") @@ ("TAPWATER" :> "tapwater") @@
    ("POSTRUN_CH" :> "postrun_ch") @@ ("BOILER_INT" :> "boiler_int") @@
    ("BUFFER" :> "buffer") @@
    ("SENSOR_FAULT_AFTER_SELF_CHECK_E0" :> "sensor_fault_after_self_check_e0") @@
    ("CV_TEMPERATURE_TOO_HIGH_E1" :> "cv_temperature_too_high_e1") @@
    ("S1_AND_S2_INTERCHANGED_E2" :> "s1_and_s2_interchanged_e2") @@
    ("NO_FLAME_SIGNAL_E4" :> "no_flame_signal_e4") @@
    ("POOR_FLAME_SIGNAL_E5" :> "poor_flame_signal_e5") @@
    ("FLAME_DETECTION_FAULT_E6" :> "flame_detection_fault_e6") @@
    ("INCORRECT_FAN_SPEED_E8" :> "incorrect_fan_speed_e8") @@
    ("SENSOR_FAULT_S1_E10" :> "sensor_fault_s1_e10") @@
    ("SENSOR_FAULT_S1_E11" :> "sensor_fault_s1_e11") @@
    ("SENSOR_FAULT_S1_E12" :> "sensor_fault_s1_e12") @@
    ("SENSOR_FAULT_S1_E13" :> "sensor_fault_s1_e13") @@
    ("SENSOR_FAULT_S1_E14" :> "sensor_fault_s1_e14") @@
    ("SENSOR_FAULT_S2_E20" :> "sensor_fault_s2_e20") @@
    ("SENSOR_FAULT_S2_E21" :> "sensor_fault_s2_e21") @@
    ("SENSOR_FAULT_S2_E22" :> "sensor_fault_s2_e22") @@
    ("SENSOR_FAULT_S2_E23" :> "sensor_fault_s2_e23") @@
    ("SENSOR_FAULT_S2_E24" :> "sensor_fault_s2_e24") @@
    ("SHORTCUT_OUTSIDE_SENSOR_TEMPERATURE_E27" :> "shortcut_outside_sensor_temperature_e27") @@
    ("GAS_VALVE_RELAY_FAULTY_E29" :> "gas_valve_relay_faulty_e29") @@
    ("GAS_VALVE_RELAY_FAULTY_E30" :> "gas_valve_relay_faulty_e30")

HEATER_ATTRS ==
    << "display_code", "display_text", "fault_code", "is_burning", "is_failed",
       "is_pumping", "is_tapping", "heater_temp", "tap_temp", "pressure",
       "serial_no" >>

HEATER_ATTRS_RAW == << "nodenr", "rf_message_rssi", "rfstatus_cntr" >>

----------------------------------------------------------------------------
(* The value decoder *)

\* the mutant: the high byte is weighted 255
_convert_255(most_significant_byte, least_significant_byte) ==
    most_significant_byte * 255 + least_significant_byte

\* _value._convert: (msb * 256 + lsb) / 100.0, in hundredths
_convert(most_significant_byte, least_significant_byte) ==
    most_significant_byte * 256 + least_significant_byte

\* _value(key_stub, data_dict): a missing key is a KeyError
_value(key_stub, data_dict) ==
    IF {key_stub \o "_msb", key_stub \o "_lsb"} \subseteq DOMAIN data_dict
    THEN LET v == _convert(data_dict[key_stub \o "_msb"], data_dict[key_stub \o "_lsb"])
         IN  Ret(IF v # INVALID_VALUE THEN Some(v) ELSE None)
    ELSE Raise("KeyError")

\* int & int of Python, on naturals
RECURSIVE BitAnd(_, _)
BitAnd(a, b) ==
    IF a = 0 \/ b = 0 THEN 0
    ELSE (a % 2) * (b % 2) + 2 * BitAnd(a \div 2, b \div 2)

----------------------------------------------------------------------------
(* class Heater *)

\* Heater.__init__(serial_no, idx, gateway); oid is the identity of the object
Heater(serial_no, idx, oid) ==
    [ serial_no |-> serial_no,
      heater_idx |-> idx,
      oid |-> oid,
      data |-> EmptyDict,
      status |-> EmptyDict,
      rooms |-> None,
      display_code |-> None,
      fault_code |-> None,
      last_display_code |-> None,
      \* history, not fields of the class: the room numbers with a room_temp
      \* in the payload of the first update() that completed, whether an
      \* update() has raised after it had stored its response, and the
      \* displ_code of the last update() that completed
      first_rooms |-> None,
      torn |-> FALSE,
      ok_code |-> None ]

\* Room.__init__(room_no, heater)
Room(room_no, heater) == [room_no |-> room_no, heater |-> heater.oid]

\* self._data["IO"] & mask, as bool
IOFlag(self, mask) ==
    IF "IO" \in DOMAIN self.data
    THEN Ret(BitAnd(self.data["IO"], mask) # 0)
    ELSE Raise("KeyError")

is_burning(self) == IOFlag(self, BITMASK_BURNER)

is_failed(self) == IOFlag(self, BITMASK_FAIL)

is_pumping_tapmask(self) == IOFlag(self, BITMASK_TAP)

is_pumping(self) == IOFlag(self, BITMASK_PUMP)

is_tapping(self) == IOFlag(self, BITMASK_TAP)

heater_temp(self) == _value("ch_temp", self.data)

tap_temp(self) == _value("tap_temp", self.data)

pressure(self) == _value("ch_pressure", self.data)

serial_no(self) == Ret(self.serial_no)

\* the mutant: the label always comes from the display-code table
display_text_display_only(self) ==
    IF is_failed(self).exc # "" THEN is_failed(self)
    ELSE Ret(IF self.display_code # None
             THEN Some(lower[DisplayCode[self.display_code[1]]]) ELSE None)

\* the mutant: the UNKNOWN member of either table has no label
display_text_unknown_null(self) ==
    IF is_failed(self).exc # "" THEN is_failed(self)
    ELSE LET c == IF is_failed(self).val THEN self.fault_code ELSE self.display_code
             table == IF is_failed(self).val THEN FaultCode ELSE DisplayCode
         IN  Ret(IF c # None /\ c[1] # -1 THEN Some(lower[table[c[1]]]) ELSE None)

\* Heater.display_text
display_text(self) ==
    IF is_failed(self).exc # "" THEN is_failed(self)
    ELSE IF is_failed(self).val
         THEN Ret(IF self.fault_code # None
                  THEN Some(lower[FaultCode[self.fault_code[1]]]) ELSE None)
         ELSE Ret(IF self.display_code # None
                  THEN Some(lower[DisplayCode[self.display_code[1]]]) ELSE None)

\* getattr(self, attr, None) for attr in HEATER_ATTRS: every name is an attribute
\* or a property of the class, and a KeyError of a property is not swallowed
GetAttr(self, attr) ==
    CASE attr = "display_code" -> Ret(self.display_code)
      [] attr = "display_text" -> display_text(self)
      [] attr = "fault_code" -> Ret(self.fault_code)
      [] attr = "is_burning" -> is_burning(self)
      [] attr = "is_failed" -> is_failed(self)
      [] attr = "is_pumping" -> is_pumping(self)
      [] attr = "is_tapping" -> is_tapping(self)
      [] attr = "heater_temp" -> heater_temp(self)
      [] attr = "tap_temp" -> tap_temp(self)
      [] attr = "pressure" -> pressure(self)
      [] attr = "serial_no" -> serial_no(self)

\* for attr in HEATER_ATTRS: self._status[attr] = getattr(self, attr, None),
\* from the i-th attribute on; the loop stops at the first attribute that raises
RECURSIVE FillStatus(_, _, _)
FillStatus(self, status, i) ==
    IF i > Len(HEATER_ATTRS) THEN [status |-> status, exc |-> ""]
    ELSE LET attr == HEATER_ATTRS[i]
             got == GetAttr(self, attr)
         IN  IF got.exc # "" THEN [status |-> status, exc |-> got.exc]
             ELSE FillStatus(self, (attr :> got.val) @@ status, i + 1)

\* for key in HEATER_ATTRS_RAW: self._status[key] = self._data.get(key)
FillRaw(self, status) ==
    [key \in {HEATER_ATTRS_RAW[i] : i \in 1..Len(HEATER_ATTRS_RAW)} |->
        IF key \in DOMAIN self.data THEN Some(self.data[key]) ELSE None] @@ status

\* the mutant: the response is merged into the stored payload
StoreData_merge(self, response) == response @@ self.data

\* self._data = await self._get(...)
StoreData(self, response) == response

\* the mutant: the else branch leaves fault_code as it was
SetDisplayCode_keep_fault(self, code) ==
    [self EXCEPT !.display_code =
                     Some(IF code \in DOMAIN DisplayCode THEN code ELSE -1)]

\* the else branch of update(): fault_code = None, display_code = DisplayCode(code)
SetDisplayCode(self, code) ==
    [self EXCEPT !.fault_code = None,
                 !.display_code =
                     Some(IF code \in DOMAIN DisplayCode THEN code ELSE -1)]

\* the if branch of update(): display_code = None, fault_code = FaultCode(code)
SetFaultCode(self, code) ==
    [self EXCEPT !.display_code = None,
                 !.fault_code =
                     Some(IF code \in DOMAIN FaultCode THEN code ELSE -1)]

\* history: the room numbers whose room_temp the decoder finds in a payload
RoomTemps(data) ==
    {r \in {1, 2} : LET t == _value("room_temp_" \o ToString(r), data)
                    IN  t.exc = "" /\ t.val # None}

\* the _LOGGER.warning calls of update(): 1 if one is made
UnknownCodeWarnings(self, code) ==
    IF /\ code \notin DOMAIN (IF is_failed(self).val THEN FaultCode ELSE DisplayCode)
       /\ self.last_display_code # Some(code)
    THEN 1 ELSE 0

\* history: the code is no member of the applicable table and is not the
\* displ_code of the last update() that completed
FreshUnknown(self, code) ==
    /\ code \notin DOMAIN (IF is_failed(self).val THEN FaultCode ELSE DisplayCode)
    /\ self.ok_code # Some(code)

\* Heater.update() once the response is in: the heater after the call, the
\* exception that ended it ("" if none), the warnings it logged and, as
\* history, whether its code was a fresh unknown one
update(self, response) ==
    LET h1 == [self EXCEPT !.data = StoreData(self, response)]
    IN  IF "displ_code" \notin DOMAIN h1.data \/ is_failed(h1).exc # ""
        THEN [self |-> [h1 EXCEPT !.torn = TRUE], exc |-> "KeyError", warnings |-> 0,
              fresh |-> FALSE]
        ELSE
        LET code == h1.data["displ_code"]
            h2 == IF is_failed(h1).val THEN SetFaultCode(h1, code)
                  ELSE SetDisplayCode(h1, code)
            h3 == [h2 EXCEPT !.last_display_code = Some(code)]
            filled == FillStatus(h3, EmptyDict, 1)
            warnings == UnknownCodeWarnings(h1, code)
        IN  IF filled.exc # ""
            THEN [self |-> [h3 EXCEPT !.status = filled.status, !.torn = TRUE],
                  exc |-> filled.exc, warnings |-> warnings,
                  fresh |-> FreshUnknown(h1, code)]
            ELSE [self |-> [h3 EXCEPT !.status = FillRaw(h3, filled.status),
                                      !.first_rooms =
                                          IF @ = None THEN Some(RoomTemps(h3.data)) ELSE @,
                                      !.ok_code = Some(code)],
                  exc |-> "", warnings |-> warnings,
                  fresh |-> FreshUnknown(h1, code)]

\* [Room(r, self) for r in (1, 2) if _value(f"room_temp_{r}", self._data) is not None]
RoomList(self) ==
    LET t1 == _value("room_temp_" \o ToString(1), self.data)
        t2 == _value("room_temp_" \o ToString(2), self.data)
    IN  IF t1.exc # "" THEN t1
        ELSE IF t2.exc # "" THEN t2
        ELSE Ret((IF t1.val # None THEN <<Room(1, self)>> ELSE <<>>) \o
                 (IF t2.val # None THEN <<Room(2, self)>> ELSE <<>>))

\* the mutant: the list is built at every access
rooms_rebuild(self) ==
    IF RoomList(self).exc # ""
    THEN [self |-> self, exc |-> RoomList(self).exc, val |-> None]
    ELSE [self |-> [self EXCEPT !.rooms = Some(RoomList(self).val)],
          exc |-> "", val |-> RoomList(self).val]

\* Heater.rooms: the heater after the access, and what the access gave
rooms(self) ==
    IF self.rooms # None THEN [self |-> self, exc |-> "", val |-> self.rooms[1]]
    ELSE IF RoomList(self).exc # ""
         THEN [self |-> self, exc |-> RoomList(self).exc, val |-> None]
         ELSE [self |-> [self EXCEPT !.rooms = Some(RoomList(self).val)],
               exc |-> "", val |-> RoomList(self).val]

----------------------------------------------------------------------------
(* class Room *)

ROOM_ATTRS == << "room_temp", "setpoint", "override" >>

\* 30.0 and 5.0, in hundredths
OVERRIDE_MAX_TEMP == 3000
OVERRIDE_MIN_TEMP == 500

\* the mutant: the readings come from the Room's own _data, which is {}
RoomData_own(self, heater) == EmptyDict

\* self._heater._data: the payload the readings of a Room are decoded from;
\* heater is the parent Heater as it is at the time of the access
RoomData(self, heater) == heater.data

room_temp(self, heater) ==
    _value("room_temp_" \o ToString(self.room_no), RoomData(self, heater))

setpoint(self, heater) ==
    _value("room_temp_set_" \o ToString(self.room_no), RoomData(self, heater))

override(self, heater) ==
    _value("room_set_ovr_" \o ToString(self.room_no), RoomData(self, heater))

\* getattr(self, attr, None) for attr in ROOM_ATTRS: every name is a property
\* of the class, and a KeyError of a property is not swallowed
RoomGetAttr(self, heater, attr) ==
    CASE attr = "room_temp" -> room_temp(self, heater)
      [] attr = "setpoint" -> setpoint(self, heater)
      [] attr = "override" -> override(self, heater)

\* for attr in ROOM_ATTRS: status[attr] = getattr(self, attr, None), from the
\* i-th attribute on
RECURSIVE RoomFillStatus(_, _, _, _)
RoomFillStatus(self, heater, status, i) ==
    IF i > Len(ROOM_ATTRS) THEN Ret(status)
    ELSE LET attr == ROOM_ATTRS[i]
             got == RoomGetAttr(self, heater, attr)
         IN  IF got.exc # "" THEN got
             ELSE RoomFillStatus(self, heater, (attr :> got.val) @@ status, i + 1)

\* Room.status
RoomStatus(self, heater) == RoomFillStatus(self, heater, EmptyDict, 1)

\* the mutant: the limits themselves are refused
OverrideInRange_strict(target) ==
    OVERRIDE_MIN_TEMP < target /\ target < OVERRIDE_MAX_TEMP

\* assert OVERRIDE_MIN_TEMP <= setpoint <= OVERRIDE_MAX_TEMP, the setpoint given
\* as target hundredths
OverrideInRange(target) ==
    OVERRIDE_MIN_TEMP <= target /\ target <= OVERRIDE_MAX_TEMP

\* the targets in range, a whole number of tenths each, for which the double
\* (target / 100 - 5.0) * 10 falls just short of the whole number it would be
\* in exact arithmetic (5.1: 0.9999999999999964)
FloatShort ==
    {510, 530, 560, 580, 610, 630, 660, 710, 760, 810, 820, 870, 920, 970, 1020,
     1070, 1120, 1640, 1690, 1740}

\* int((setpoint - OVERRIDE_MIN_TEMP) * 10): the product in binary floating
\* point, truncated towards zero
SetpointTicks(target) ==
    (target - OVERRIDE_MIN_TEMP) \div 10 - (IF target \in FloatShort THEN 1 ELSE 0)

\* the mutant: the thermostat is addressed by the room number
ThermostatNo_room_no(self) == self.room_no

\* int(self.room_no) - 1
ThermostatNo(self) == self.room_no - 1

\* the url of set_override()
OverrideUrl(self, heater, target) ==
    "data.json?heater=" \o ToString(heater.heater_idx)
        \o "&thermostat=" \o ToString(ThermostatNo(self))
        \o "&setpoint=" \o ToString(SetpointTicks(target))

\* the mutant: the response is stored as the payload of the parent
set_override_stores(self, heater, target, response) ==
    IF ~OverrideInRange(target)
    THEN [heater |-> heater, exc |-> "ValueError", requests |-> <<>>]
    ELSE [heater |-> IF response.exc = "" THEN [heater EXCEPT !.data = response.val]
                     ELSE heater,
          exc |-> response.exc,
          requests |-> <<OverrideUrl(self, heater, target)>>]

\* Room.set_override(setpoint), the transport answering with response: the
\* parent after the call, the exception that ended it and the urls requested
set_override(self, heater, target, response) ==
    IF ~OverrideInRange(target)
    THEN [heater |-> heater, exc |-> "ValueError", requests |-> <<>>]
    ELSE [heater |-> heater,
          exc |-> response.exc,
          requests |-> <<OverrideUrl(self, heater, target)>>]

----------------------------------------------------------------------------
(* class Gateway *)

\* Gateway.__init__(hostname, username, password): the transport settings
Gateway(hostname, username, password) ==
    IF username = None
    THEN [url_base |-> "http://" \o hostname \o "/", auth |-> None]
    ELSE [url_base |-> "http://" \o hostname \o "/protect/",
          auth |-> Some([login |-> username[1],
                         password |-> IF password = None THEN "" ELSE password[1]])]

\* the request of _get(url): session.get(url=f"{_url_base}{url}", auth=_auth)
Request(gateway, url) == [url |-> gateway.url_base \o url, auth |-> gateway.auth]

\* bool(x) of an optional string
Truthy(x) == x # None /\ x # Some("")

\* inclient._parse_args: parser.error(...) ends the program (SystemExit) if
\* bool(args.username) ^ bool(args.password)
_parse_args(username, password) ==
    IF Truthy(username) # Truthy(password) THEN Raise("SystemExit")
    ELSE Ret([username |-> username, password |-> password])

\* the exception classes of aiohttp that derive from aiohttp.ClientError, among
\* those the transport raises here
ClientErrors == {"ClientConnectorError", "ClientResponseError"}

\* except (aiohttp.ClientError, UnicodeDecodeError) as exc
CaughtByHeaters(exc) == exc \in ClientErrors \cup {"UnicodeDecodeError"}

\* dict(await self._get("heaterlist.json"))[HEATERLIST]: what the expression
\* gives for a response of _get (a parsed body, or the exception of the request)
HeaterListOf(response) ==
    IF response.exc # "" THEN response
    ELSE IF response.val.type # "object" THEN Raise("TypeError")
    ELSE IF HEATERLIST \notin DOMAIN response.val.members THEN Raise("KeyError")
    ELSE Ret(response.val.members[HEATERLIST])

\* the mutant: the reserved serial is taken for a heater
KeepSlot_no_sentinel(h) == h # None /\ h[1] # ""

\* if h and h != NULL_SERIAL_NO
KeepSlot(h) == h # None /\ h[1] # "" /\ h[1] # NULL_SERIAL_NO

\* the mutant: the heaters are numbered after the filter
SlotIndex_after_filter(heaters, i) ==
    Cardinality({j \in 1..i : KeepSlot(heaters[j])}) - 1

\* enumerate(heaters): the idx of the i-th element, counted from 0
SlotIndex(heaters, i) == i - 1

\* [Heater(h, idx, self) for idx, h in enumerate(heaters) if h and h != NULL_SERIAL_NO],
\* the slots from the i-th on; g numbers the list built
RECURSIVE BuildHeaters(_, _, _)
BuildHeaters(heaters, i, g) ==
    IF i > Len(heaters) THEN <<>>
    ELSE (IF KeepSlot(heaters[i])
          THEN <<Heater(heaters[i][1], SlotIndex(heaters, i), <<g, i>>)>>
          ELSE <<>>) \o BuildHeaters(heaters, i + 1, g)

\* if self._heaters == []: raise InvalidHeaterList
RaisesInvalidHeaterList(list) == list = <<>>

\* the mutant: a fetch that fails drops the cached list
FailedFetch_clears(cached) == None

\* self._heaters after a fetch that raised: the assignment of line 212 is
\* not reached
FailedFetch(cached) == cached

\* the mutant: the cache is not consulted
UseCache_never(force_refresh) == FALSE

\* if self._heaters is not None and not force_refresh
UseCache(force_refresh) == gw_heaters # None /\ ~force_refresh

\* f"data.json?heater={self._heater_idx}"
UpdateUrl(self) == "data.json?heater=" \o ToString(self.heater_idx)

----------------------------------------------------------------------------
(* The state after Gateway(hostname) *)

NoCall == [op |-> "none"]

Init ==
    /\ gw_heaters = None
    /\ gen = 0
    /\ fetched = None
    /\ unforcedReqs = 0
    /\ escaped = FALSE
    /\ call = NoCall
    /\ result = Ret(None)
    /\ requests = <<>>
    /\ dec = [kind |-> "none"]
    /\ pending = <<>>

----------------------------------------------------------------------------
(* The calls.  The caller awaits each call before it makes the next, so a  *)
(* call is one step: the request, the response and everything done with it. *)

\* await gateway.heaters(force_refresh), the transport answering with response
heaters(force_refresh, response) ==
    /\ call' = [op |-> "heaters", force_refresh |-> force_refresh,
                response |-> response]
    /\ UNCHANGED <<dec, pending>>
    /\ IF UseCache(force_refresh)
       THEN /\ result' = Ret(gw_heaters[1])
            /\ requests' = <<>>
            /\ UNCHANGED <<gw_heaters, gen, fetched, unforcedReqs, escaped>>
       ELSE /\ requests' = <<"heaterlist.json">>
            /\ force_refresh \/ unforcedReqs < MaxUnforcedReqs
            /\ unforcedReqs' = IF force_refresh THEN unforcedReqs ELSE unforcedReqs + 1
            /\ \E got \in {HeaterListOf(response)} :
                   IF got.exc # ""
                   THEN /\ result' = Raise(IF CaughtByHeaters(got.exc)
                                           THEN "InvalidGateway" ELSE got.exc)
                        /\ gw_heaters' = FailedFetch(gw_heaters)
                        /\ UNCHANGED <<gen, fetched>>
                   ELSE /\ gen < MaxGen
                        /\ gen' = gen + 1
                        /\ fetched' = Some(got.val)
                        /\ gw_heaters' = Some(BuildHeaters(got.val, 1, gen + 1))
                        /\ result' = IF RaisesInvalidHeaterList(gw_heaters'[1])
                                     THEN Raise("InvalidHeaterList")
                                     ELSE Ret(gw_heaters'[1])
            /\ escaped' = (escaped \/ result'.exc \notin {"", "InvalidGateway", "InvalidHeaterList"})

\* await heater.update() on the k-th heater of the cached list (the Heater
\* objects of a replaced list are no longer followed), the transport answering
\* with response
HeaterUpdate(k, response) ==
    /\ gw_heaters # None
    /\ k \in 1..Len(gw_heaters[1])
    /\ \E self \in {gw_heaters[1][k]} :
           /\ call' = [op |-> "update", k |-> k, response |-> response]
           /\ requests' = <<UpdateUrl(self)>>
           /\ IF response.exc # ""
              THEN /\ result' = [exc |-> response.exc, val |-> None, warnings |-> 0,
                                 fresh |-> FALSE]
                   /\ UNCHANGED gw_heaters
              ELSE \E done \in {update(self, response.val)} :
                   /\ result' = [exc |-> done.exc, val |-> None,
                                 warnings |-> done.warnings, fresh |-> done.fresh]
                   /\ gw_heaters' = Some([gw_heaters[1] EXCEPT ![k] = done.self])
    /\ UNCHANGED <<gen, fetched, unforcedReqs, escaped, dec, pending>>

\* heater.rooms on the k-th heater of the list
HeaterRooms(k) ==
    /\ gw_heaters # None
    /\ k \in 1..Len(gw_heaters[1])
    /\ \E got \in {rooms(gw_heaters[1][k])} :
           /\ call' = [op |-> "rooms", k |-> k]
           /\ requests' = <<>>
           /\ result' = [exc |-> got.exc, val |-> got.val]
           /\ gw_heaters' = Some([gw_heaters[1] EXCEPT ![k] = got.self])
    /\ UNCHANGED <<gen, fetched, unforcedReqs, escaped, dec, pending>>

\* self._heater of a Room: the Heater of the cached list that built it
HeaterOf(self) ==
    CHOOSE h \in {gw_heaters[1][i] : i \in 1..Len(gw_heaters[1])} : h.oid = self.heater

\* room.status, room.room_temp, room.setpoint or room.override on the j-th
\* Room of the rooms of the k-th heater
RoomRead(k, j, attr) ==
    /\ gw_heaters # None
    /\ k \in 1..Len(gw_heaters[1])
    /\ gw_heaters[1][k].rooms # None
    /\ j \in 1..Len(gw_heaters[1][k].rooms[1])
    /\ \E self \in {gw_heaters[1][k].rooms[1][j]} :
           /\ call' = [op |-> "room_read", k |-> k, room_no |-> self.room_no,
                       attr |-> attr]
           /\ requests' = <<>>
           /\ result' = IF attr = "status" THEN RoomStatus(self, HeaterOf(self))
                        ELSE RoomGetAttr(self, HeaterOf(self), attr)
    /\ UNCHANGED <<gw_heaters, gen, fetched, unforcedReqs, escaped, dec, pending>>

\* await room.set_override(target / 100) on the j-th Room of the rooms of the
\* k-th heater, the transport answering with response
RoomSetOverride(k, j, target, response) ==
    /\ gw_heaters # None
    /\ k \in 1..Len(gw_heaters[1])
    /\ gw_heaters[1][k].rooms # None
    /\ j \in 1..Len(gw_heaters[1][k].rooms[1])
    /\ \E self \in {gw_heaters[1][k].rooms[1][j]} :
       \E done \in {set_override(self, HeaterOf(self), target, response)} :
           /\ call' = [op |-> "set_override", k |-> k, room_no |-> self.room_no,
                       target |-> target, response |-> response]
           /\ requests' = done.requests
           /\ result' = [exc |-> done.exc, val |-> None]
           /\ gw_heaters' = Some([gw_heaters[1] EXCEPT ![k] = done.heater])
    /\ UNCHANGED <<gen, fetched, unforcedReqs, escaped, dec, pending>>

\* heater.status, or one of the attributes of HEATER_ATTRS, on the k-th heater
HeaterRead(k, attr) ==
    /\ gw_heaters # None
    /\ k \in 1..Len(gw_heaters[1])
    /\ call' = [op |-> "read", k |-> k, attr |-> attr]
    /\ requests' = <<>>
    /\ result' = IF attr = "status" THEN Ret(gw_heaters[1][k].status)
                 ELSE GetAttr(gw_heaters[1][k], attr)
    /\ UNCHANGED <<gw_heaters, gen, fetched, unforcedReqs, escaped, dec, pending>>

----------------------------------------------------------------------------
(* update() as the event loop runs it.  The coroutine suspends once, at    *)
(* await self._get(...); what follows the await has no other suspension    *)
(* point and runs in one piece when the call is resumed.                   *)

\* a list without its i-th element
RemoveAt(l, i) == SubSeq(l, 1, i - 1) \o SubSeq(l, i + 1, Len(l))

\* heater.update() on the k-th heater of the cached list begins: the url is
\* built, the request is issued and the call is suspended.  response is what
\* the transport will give this call; overlapped records that another
\* update() was suspended while this one was.
HeaterUpdateBegin(k, response) ==
    /\ gw_heaters # None
    /\ k \in 1..Len(gw_heaters[1])
    /\ Len(pending) < MaxPending
    /\ pending' = Append([i \in 1..Len(pending) |->
                             [pending[i] EXCEPT !.overlapped = TRUE]],
                         [oid |-> gw_heaters[1][k].oid, k |-> k,
                          url |-> UpdateUrl(gw_heaters[1][k]),
                          response |-> response,
                          overlapped |-> pending # <<>>])
    /\ UNCHANGED <<gw_heaters, gen, fetched, unforcedReqs, escaped, call, result,
                   requests, dec>>

\* the i-th suspended update() is resumed with its response and runs to its
\* end (a Heater that is no longer in the cached list is not followed)
HeaterUpdateResume(i) ==
    /\ i \in 1..Len(pending)
    /\ pending' = RemoveAt(pending, i)
    /\ \E p \in {pending[i]} :
           /\ call' = [op |-> "update", k |-> p.k, response |-> p.response,
                       overlapped |-> p.overlapped]
           /\ requests' = <<p.url>>
           /\ IF p.response.exc # ""
              THEN /\ result' = [exc |-> p.response.exc, val |-> None, warnings |-> 0,
                                 fresh |-> FALSE]
                   /\ UNCHANGED gw_heaters
              ELSE \E self \in {gw_heaters[1][p.k]} :
                   \E done \in {update(self, p.response.val)} :
                   /\ result' = [exc |-> done.exc, val |-> None,
                                 warnings |-> done.warnings, fresh |-> done.fresh]
                   /\ gw_heaters' = IF self.oid = p.oid
                                    THEN Some([gw_heaters[1] EXCEPT ![p.k] = done.self])
                                    ELSE gw_heaters
    /\ UNCHANGED <<gen, fetched, unforcedReqs, escaped, dec>>

----------------------------------------------------------------------------
(* What the transport can answer *)

\* a parsed JSON body
Object(members) == [type |-> "object", members |-> members]

\* the exceptions of self._gateway._session.get(...) and resp.json(...):
\* unreachable host, non-2xx status (raise_for_status), the total timeout
\* (asyncio.TimeoutError), a body that is not JSON, a body that is not text
TransportErrors ==
    {"ClientConnectorError", "ClientResponseError", "TimeoutError",
     "JSONDecodeError", "UnicodeDecodeError"}

SERIAL_NO_0 == "2110f25190"
SERIAL_NO_1 == "2110f25191"

SlotValues ==
    {None, Some(""), Some(NULL_SERIAL_NO), Some(SERIAL_NO_0), Some(SERIAL_NO_1)}

HeaterLists == [1..MaxSlots -> SlotValues]

GatewayResponses ==
    {Ret(Object(HEATERLIST :> l)) : l \in HeaterLists}
    \cup {Ret(Object(EmptyDict))}
    \cup {Raise(e) : e \in TransportErrors}

\* the sentinel pair (127, 255) and the pair of n hundredths
Msb(n) == n \div 256
Lsb(n) == n % 256

\* a complete payload of data.json
Payload(displ_code, IO, ch_temp, room_temp_1, room_temp_2, room_set_ovr_1) ==
    [ displ_code |-> displ_code, IO |-> IO,
      ch_temp_msb |-> Msb(ch_temp), ch_temp_lsb |-> Lsb(ch_temp),
      tap_temp_msb |-> 19, tap_temp_lsb |-> 184,
      ch_pressure_msb |-> 0, ch_pressure_lsb |-> 174,
      nodenr |-> 250, rf_message_rssi |-> 27, rfstatus_cntr |-> 0,
      room_temp_1_msb |-> Msb(room_temp_1), room_temp_1_lsb |-> Lsb(room_temp_1),
      room_temp_set_1_msb |-> 7, room_temp_set_1_lsb |-> 8,
      room_set_ovr_1_msb |-> Msb(room_set_ovr_1), room_set_ovr_1_lsb |-> Lsb(room_set_ovr_1),
      room_temp_2_msb |-> Msb(room_temp_2), room_temp_2_lsb |-> Lsb(room_temp_2),
      room_temp_set_2_msb |-> 127, room_temp_set_2_lsb |-> 255,
      room_set_ovr_2_msb |-> 3, room_set_ovr_2_lsb |-> 132 ]

\* a payload without some of its fields
Without(payload, keys) == [k \in DOMAIN payload \ keys |-> payload[k]]

\* tests/test_heater.py HEATER_SANS_ROOMS[0] and HEATER_WITH_ROOMS[0]
HEATER_SANS_ROOMS == Payload(126, 0, 6312, 32767, 32767, 0)
HEATER_WITH_ROOMS == Payload(126, 0, 6312, 1900, 32767, 0)

Codes == {0, 1, 126, 99, 100}
IOs == {0, 1, 10, 15}
Temps == {1900, 32767}

Payloads ==
    {Payload(c, io, 6312, 1900, 32767, 0) : c \in Codes, io \in IOs}
    \cup {Payload(126, 0, 6312, r1, r2, 0) : r1 \in Temps, r2 \in Temps}
    \cup {Payload(126, 0, 32767, 32767, 1900, 1950)}
    \cup {Without(Payload(1, 1, 6312, 32767, 1900, 0), keys) :
            keys \in {{"displ_code"}, {"IO"}, {"ch_temp_msb"}, {"nodenr"},
                      {"room_temp_2_msb", "room_temp_2_lsb"}}}

\* the answers to data.json?heater=N
UpdateResponses ==
    {Ret(p) : p \in Payloads} \cup {Raise("ClientConnectorError")}

\* fewer answers, for the behaviours of the Gateway
FewUpdateResponses == {Ret(HEATER_WITH_ROOMS), Raise("ClientConnectorError")}

\* the heater list that binds one heater, in its last slot
OneHeaterList == [i \in 1..MaxSlots |-> IF i = MaxSlots THEN Some(SERIAL_NO_0) ELSE None]

OneHeaterResponses ==
    {Ret(Object(HEATERLIST :> OneHeaterList)), Raise("ClientConnectorError")}

----------------------------------------------------------------------------
(* The Gateway and its heater list, with few payloads *)

\* no response is drawn for a call that makes no request
NoResponse == Raise("")

GatewayHeaters ==
    \E f \in BOOLEAN :
        IF UseCache(f) THEN heaters(f, NoResponse)
        ELSE \E r \in GatewayResponses : heaters(f, r)

GatewayUpdate ==
    \E k \in 1..MaxSlots, r \in FewUpdateResponses : HeaterUpdate(k, r)

Next == GatewayHeaters \/ GatewayUpdate

Spec == Init /\ [][Next]_vars

----------------------------------------------------------------------------
(* One heater, with many payloads; the caller does not force a refresh     *)
(* here (Spec has the refreshes)                                            *)

OneHeater ==
    IF UseCache(FALSE) THEN heaters(FALSE, NoResponse)
    ELSE \E r \in OneHeaterResponses : heaters(FALSE, r)

AnyUpdate == \E k \in 1..MaxSlots, r \in UpdateResponses : HeaterUpdate(k, r)

AnyRooms == \E k \in 1..MaxSlots : HeaterRooms(k)

NextHeater == OneHeater \/ AnyUpdate \/ AnyRooms

SpecHeater == Init /\ [][NextHeater]_vars

----------------------------------------------------------------------------
(* One heater and its rooms *)

\* payloads that differ in the fields of the rooms: room 1 only, no room,
\* room 2 only with an override for room 1, both rooms, a sentinel override,
\* no override field for room 1, no room_temp field for room 1, and one
\* without ch_temp_msb, on which update() raises
RoomPayloads ==
    { HEATER_WITH_ROOMS,
      HEATER_SANS_ROOMS,
      Payload(126, 0, 6312, 32767, 1900, 1950),
      Payload(126, 0, 6312, 2100, 1900, 1950),
      Payload(126, 0, 6312, 1900, 32767, 32767),
      Without(HEATER_WITH_ROOMS, {"room_set_ovr_1_msb", "room_set_ovr_1_lsb"}),
      Without(HEATER_WITH_ROOMS, {"room_temp_1_msb", "room_temp_1_lsb"}),
      Without(HEATER_WITH_ROOMS, {"ch_temp_msb"}) }

RoomUpdateResponses ==
    {Ret(p) : p \in RoomPayloads} \cup {Raise("ClientConnectorError")}

\* the setpoints given to set_override(): 4.99, 19.5 and 30.0
OverrideTargets == {OVERRIDE_MIN_TEMP - 1, 1950, OVERRIDE_MAX_TEMP}

\* the answers to data.json?heater=N&thermostat=M&setpoint=S: the payload with
\* the override set, or no answer
OverrideResponses ==
    {Ret(Payload(126, 0, 6312, 1900, 32767, 1950)), Raise("ClientConnectorError")}

RoomUpdate == \E k \in 1..MaxSlots, r \in RoomUpdateResponses : HeaterUpdate(k, r)

AnyRoomRead ==
    \E k \in 1..MaxSlots, j \in {1, 2} :
        \E attr \in {"status"} \cup {ROOM_ATTRS[i] : i \in 1..Len(ROOM_ATTRS)} :
            RoomRead(k, j, attr)

AnySetOverride ==
    \E k \in 1..MaxSlots, j \in {1, 2}, target \in OverrideTargets :
        IF OverrideInRange(target)
        THEN \E r \in OverrideResponses : RoomSetOverride(k, j, target, r)
        ELSE RoomSetOverride(k, j, target, NoResponse)

AnyRead ==
    \E k \in 1..MaxSlots :
        \E attr \in {"status"} \cup {HEATER_ATTRS[i] : i \in 1..Len(HEATER_ATTRS)} :
            HeaterRead(k, attr)

NextRoom == OneHeater \/ RoomUpdate \/ AnyRooms \/ AnyRoomRead \/ AnySetOverride \/ AnyRead

SpecRoom == Init /\ [][NextRoom]_vars

----------------------------------------------------------------------------
(* One heater and several update() calls in flight *)

\* the answers given to the calls in flight: complete payloads that differ
\* in displ_code, in the failed bit and in a temperature, payloads on which
\* update() raises after it stored them, and a refused connection
ConcurrentPayloads ==
    { HEATER_WITH_ROOMS,
      Payload(0, 0, 6312, 1900, 32767, 0),
      Payload(1, 1, 6312, 1900, 32767, 0),
      Payload(99, 0, 6500, 2100, 1900, 1950),
      Without(HEATER_WITH_ROOMS, {"IO"}),
      Without(Payload(1, 1, 6312, 1900, 32767, 0), {"ch_temp_msb"}) }

ConcurrentResponses ==
    {Ret(p) : p \in ConcurrentPayloads} \cup {Raise("ClientConnectorError")}

AnyUpdateBegin ==
    \E k \in 1..MaxSlots, r \in ConcurrentResponses : HeaterUpdateBegin(k, r)

AnyUpdateResume == \E i \in 1..MaxPending : HeaterUpdateResume(i)

NextConcurrent == OneHeater \/ AnyUpdateBegin \/ AnyUpdateResume

SpecConcurrent == Init /\ [][NextConcurrent]_vars

----------------------------------------------------------------------------
(* The pure decoders, on every input *)

\* the displ_code values a payload can carry
DisplCodes == (0 - MaxCode)..MaxCode

\* the setpoints given to set_override(), in hundredths
Targets == (OVERRIDE_MIN_TEMP - TargetMargin)..(OVERRIDE_MAX_TEMP + TargetMargin)

\* the credentials given to the command line of inclient.py, or to Gateway()
Usernames == {None, Some(""), Some("admin")}
Passwords == {None, Some(""), Some("secret")}

InitDecode ==
    /\ gw_heaters = None
    /\ gen = 0
    /\ fetched = None
    /\ unforcedReqs = 0
    /\ escaped = FALSE
    /\ call = NoCall
    /\ result = Ret(None)
    /\ requests = <<>>
    /\ pending = <<>>
    /\ dec \in {[kind |-> "value", msb |-> m, lsb |-> l, done |-> FALSE] :
                    m \in Byte, l \in Byte}
               \cup {[kind |-> "flags", IO |-> io, done |-> FALSE] : io \in 0..MaxIO}
               \cup {[kind |-> "code", code |-> c, IO |-> io, done |-> FALSE] :
                        c \in DisplCodes, io \in {0, 1}}
               \cup {[kind |-> "setpoint", target |-> t, done |-> FALSE] : t \in Targets}
               \cup {[kind |-> "gateway", via |-> v, username |-> u, password |-> p,
                       done |-> FALSE] :
                        v \in {"inclient", "library"}, u \in Usernames, p \in Passwords}

\* _value("ch_temp", {"ch_temp_msb": msb, "ch_temp_lsb": lsb})
DecodeValue ==
    /\ dec.kind = "value" /\ ~dec.done
    /\ dec' = [kind |-> "value", msb |-> dec.msb, lsb |-> dec.lsb, done |-> TRUE,
               out |-> _value("ch_temp", [ch_temp_msb |-> dec.msb, ch_temp_lsb |-> dec.lsb])]
    /\ UNCHANGED <<gw_heaters, gen, fetched, unforcedReqs, escaped, call, result, requests,
                   pending>>

\* the four flags of a heater whose payload has the given IO
DecodeFlags ==
    /\ dec.kind = "flags" /\ ~dec.done
    /\ LET self == [Heater(SERIAL_NO_0, 0, <<0, 0>>) EXCEPT !.data = [IO |-> dec.IO]]
       IN  dec' = [kind |-> "flags", IO |-> dec.IO, done |-> TRUE,
                   is_failed |-> is_failed(self).val,
                   is_pumping |-> is_pumping(self).val,
                   is_tapping |-> is_tapping(self).val,
                   is_burning |-> is_burning(self).val]
    /\ UNCHANGED <<gw_heaters, gen, fetched, unforcedReqs, escaped, call, result, requests,
                   pending>>

\* what a Heater reports once update() has ended: how the call ended, the
\* status snapshot, the two code attributes and display_text
Reported(done) ==
    [ exc |-> done.exc,
      status |-> done.self.status,
      display_code |-> done.self.display_code,
      fault_code |-> done.self.fault_code,
      display_text |-> display_text(done.self) ]

\* update() of a new Heater on a complete payload with the given displ_code and IO
ReportedFor(code, io) ==
    Reported(update(Heater(SERIAL_NO_0, 0, <<0, 0>>),
                    Payload(code, io, 6312, 1900, 32767, 0)))

DecodeCode ==
    /\ dec.kind = "code" /\ ~dec.done
    /\ dec' = [kind |-> "code", code |-> dec.code, IO |-> dec.IO, done |-> TRUE,
               out |-> ReportedFor(dec.code, dec.IO)]
    /\ UNCHANGED <<gw_heaters, gen, fetched, unforcedReqs, escaped, call, result, requests,
                   pending>>

\* set_override(target / 100) on Room 1 of a Heater with index 0, the
\* transport answering 200
DecodeSetpoint ==
    /\ dec.kind = "setpoint" /\ ~dec.done
    /\ \E heater \in {Heater(SERIAL_NO_0, 0, <<0, 0>>)} :
       \E done \in {set_override(Room(1, heater), heater, dec.target, Ret(EmptyDict))} :
           dec' = [kind |-> "setpoint", target |-> dec.target, done |-> TRUE,
                   exc |-> done.exc, requests |-> done.requests]
    /\ UNCHANGED <<gw_heaters, gen, fetched, unforcedReqs, escaped, call, result, requests,
                   pending>>

\* Gateway("gw", username, password) followed by heaters(), either called by
\* inclient.main() after _parse_args() or by a program that uses the library
DecodeGateway ==
    /\ dec.kind = "gateway" /\ ~dec.done
    /\ \E args \in {IF dec.via = "inclient" THEN _parse_args(dec.username, dec.password)
                     ELSE Ret([username |-> dec.username, password |-> dec.password])} :
           dec' = [kind |-> "gateway", via |-> dec.via, username |-> dec.username,
                   password |-> dec.password, done |-> TRUE,
                   exc |-> args.exc,
                   requests |->
                       IF args.exc # "" THEN <<>>
                       ELSE <<Request(Gateway("gw", args.val.username, args.val.password),
                                      "heaterlist.json")>>]
    /\ UNCHANGED <<gw_heaters, gen, fetched, unforcedReqs, escaped, call, result, requests,
                   pending>>

NextDecode == DecodeValue \/ DecodeFlags \/ DecodeCode \/ DecodeSetpoint \/ DecodeGateway

SpecDecode == InitDecode /\ [][NextDecode]_vars

----------------------------------------------------------------------------
(* The heater list of the Gateway *)

\* the slots of a raw heater list that hold a heater: neither null, nor empty,
\* nor the reserved serial
BoundSlots(raw) ==
    {i \in 1..Len(raw) : raw[i] \notin {None, Some(""), Some("000W00000")}}

\* the k-th bound slot, in slot order
KthBoundSlot(raw, k) ==
    CHOOSE i \in BoundSlots(raw) : Cardinality({j \in BoundSlots(raw) : j <= i}) = k

NoBoundSlotFetched ==
    /\ call.op = "heaters" /\ requests = <<"heaterlist.json">>
    /\ call.response.exc = ""
    /\ call.response.val.type = "object"
    /\ "heaterlist" \in DOMAIN call.response.val.members
    /\ \A i \in 1..Len(call.response.val.members["heaterlist"]) :
           call.response.val.members["heaterlist"][i] \in {None, Some("000W00000")}

\* C2: a heaters() call that fetched a heater list of nulls and reserved
\* serials only raises InvalidHeaterList.
C2_NoValidHeaterRaises == NoBoundSlotFetched => result.exc = "InvalidHeaterList"

\* C2 witness: InvalidHeaterList raised for a list that mixes a null and a
\* reserved serial.
C2_Witness ==
    /\ NoBoundSlotFetched
    /\ result.exc = "InvalidHeaterList"
    /\ \E i, j \in 1..Len(fetched[1]) :
           fetched[1][i] = None /\ fetched[1][j] = Some("000W00000")

\* the heaterlist.json request of the last heaters() call failed in transport,
\* or its body was no heater-list object
FetchFailed ==
    /\ call.op = "heaters" /\ requests = <<"heaterlist.json">>
    /\ \/ call.response.exc # ""
       \/ call.response.val.type # "object"
       \/ "heaterlist" \notin DOMAIN call.response.val.members

\* C3: a heaters() call whose request fails in transport (unreachable host,
\* non-2xx status, timeout) or whose body is no valid heater-list object
\* raises InvalidGateway, and nothing else.
C3_FetchFailureIsInvalidGateway == FetchFailed => result.exc = "InvalidGateway"

\* the Heater objects of a list, by identity
Oids(l) == IF l = None THEN <<>> ELSE [k \in 1..Len(l[1]) |-> l[1][k].oid]

\* C4, as claimed: a heaters() call without force_refresh that made no
\* request returned the cached list, and the calls without force_refresh have
\* issued at most one heaterlist.json request between them (stated of the
\* behaviours in which every heaters() call returned or raised InvalidGateway
\* or InvalidHeaterList).
C4_AtMostOneUnforcedRequest ==
    ~escaped =>
        /\ (call.op = "heaters" /\ ~call.force_refresh /\ requests = <<>>) =>
               result = Ret(gw_heaters[1])
        /\ unforcedReqs <= 1

\* C4, amended: on a populated Gateway a heaters() call without force_refresh
\* returns the cached list (the same Heater objects in the same order), issues
\* no request and leaves the list alone; the calls without force_refresh issue
\* a heaterlist.json request only while the list is not populated; and the
\* Heater objects of a populated list change only in a call with
\* force_refresh.
C4_CachedUnlessForced ==
    [][ /\ (gw_heaters # None /\ call'.op = "heaters" /\ ~call'.force_refresh) =>
               /\ requests' = <<>>
               /\ result' = Ret(gw_heaters[1])
               /\ gw_heaters' = gw_heaters
        /\ unforcedReqs' # unforcedReqs => gw_heaters = None
        /\ (gw_heaters # None /\ Oids(gw_heaters') # Oids(gw_heaters)) =>
               (call'.op = "heaters" /\ call'.force_refresh)
      ]_vars

\* C4 witness: a call without force_refresh served from the cache, after two
\* calls without force_refresh had each issued a request.
C4_Witness ==
    /\ call.op = "heaters" /\ ~call.force_refresh /\ requests = <<>>
    /\ result.exc = "" /\ Len(result.val) >= 1
    /\ unforcedReqs = 2

\* C23: a heaters() call that returns, returns a list with at least one
\* Heater; a call made while the list built holds no Heater raises
\* InvalidHeaterList, be it the call that fetched the list or a later one
\* without force_refresh (unless its own request failed).
C23_ReturnedListNonEmpty ==
    call.op = "heaters" =>
        /\ result.exc = "" => Len(result.val) >= 1
        /\ (gw_heaters # None /\ gw_heaters[1] = <<>> /\ ~FetchFailed) =>
               result.exc = "InvalidHeaterList"

\* C24: a heaters() call whose request fails, with or without force_refresh,
\* on a populated Gateway or not, leaves the cached list as it was; an
\* update() whose request fails leaves the Heater (payload, status,
\* display_code, fault_code, last displ_code, rooms) and the list as they were.
C24_FailedRequestKeepsState ==
    [][ /\ (call'.op = "heaters" /\ requests' # <<>> /\ call'.response.exc # "") =>
               gw_heaters' = gw_heaters
        /\ (call'.op = "update" /\ call'.response.exc # "") =>
               gw_heaters' = gw_heaters
      ]_vars

\* C24 witness: a heaters(force_refresh=True) whose request failed has raised
\* InvalidGateway on a Gateway that holds a list with a Heater that was
\* updated before.
C24_Witness ==
    /\ call.op = "heaters" /\ call.force_refresh /\ call.response.exc # ""
    /\ result.exc = "InvalidGateway"
    /\ gw_heaters # None
    /\ \E k \in 1..Len(gw_heaters[1]) : gw_heaters[1][k].ok_code # None

----------------------------------------------------------------------------
(* The decoders *)

\* C5: for every byte pair but (127, 255) the decoder returns
\* msb * 256 + lsb hundredths, and for (127, 255), and only for it, None.
C5_ValueDecoder ==
    (dec.kind = "value" /\ dec.done) =>
        /\ dec.out.exc = ""
        /\ dec.out.val = IF dec.msb = 127 /\ dec.lsb = 255 THEN None
                         ELSE Some(dec.msb * 256 + dec.lsb)

\* C5 witness: the pair (127, 255) has been decoded to None.
C5_Witness ==
    /\ dec.kind = "value" /\ dec.done
    /\ dec.msb = 127 /\ dec.lsb = 255
    /\ dec.out = Ret(None)

\* bit n of a natural number
Bit(io, n) == (io \div (2 ^ n)) % 2 = 1

\* C6: is_failed, is_pumping, is_tapping and is_burning are bits 0, 1, 2 and
\* 3 of IO, whatever the other bits.
C6_FlagsAreBits ==
    (dec.kind = "flags" /\ dec.done) =>
        /\ dec.is_failed = Bit(dec.IO, 0)
        /\ dec.is_pumping = Bit(dec.IO, 1)
        /\ dec.is_tapping = Bit(dec.IO, 2)
        /\ dec.is_burning = Bit(dec.IO, 3)

\* C6 witness: IO = 26 (bits 1, 3 and 4) decodes to pumping and burning only.
C6_Witness ==
    /\ dec.kind = "flags" /\ dec.done /\ dec.IO = 26
    /\ dec.is_pumping /\ dec.is_burning /\ ~dec.is_failed /\ ~dec.is_tapping

\* a displ_code that is no member of the table that applies (the fault codes
\* if bit 0 of IO is set, the display codes otherwise)
NotInTable(code, io) ==
    code \notin DOMAIN (IF io % 2 = 1 THEN FaultCode ELSE DisplayCode)

\* C11: for a displ_code that is not in the applicable table, what the heater
\* reports after update() (display_text, the status record, display_code and
\* fault_code) carries the numeric value of the code: it differs from what is
\* reported for every other code that is not in the table, so the code can
\* be recovered from it.
C11_UnknownCodeRecoverable ==
    (dec.kind = "code" /\ dec.done /\ NotInTable(dec.code, dec.IO)) =>
        \A c \in DisplCodes :
            (c # dec.code /\ NotInTable(c, dec.IO)) => ReportedFor(c, dec.IO) # dec.out

\* C12: for every displ_code and either value of the failed bit, update() on
\* a complete payload ends without raising and display_text is a non-null
\* label afterwards, in the status record too; for a code that is not in the
\* applicable table the label is "unknown".
C12_UnknownCodeNeverRaises ==
    (dec.kind = "code" /\ dec.done) =>
        /\ dec.out.exc = ""
        /\ dec.out.display_text.exc = ""
        /\ dec.out.display_text.val # None
        /\ dec.out.status["display_text"] = dec.out.display_text.val
        /\ NotInTable(dec.code, dec.IO) => dec.out.display_text.val = Some("unknown")

\* C12 witness: update() has ended normally on a failed heater whose displ_code
\* 99 is no fault code, and display_text is "unknown".
C12_Witness ==
    /\ dec.kind = "code" /\ dec.done
    /\ dec.code = 99 /\ dec.IO = 1
    /\ dec.out.exc = ""
    /\ dec.out.fault_code = Some(-1)
    /\ dec.out.display_text = Ret(Some("unknown"))

\* C14: for every accepted target from 5.00 to 30.00, in hundredths, the
\* setpoint that set_override() sends is the whole number of tenths nearest
\* to target - 5.0 (either neighbour for a target half way), within 0..250:
\* 19.5 sends 145.
C14_SetpointIsRounded ==
    (dec.kind = "setpoint" /\ dec.done /\ dec.target >= 500 /\ dec.target <= 3000) =>
        \E ticks \in 0..250 :
            /\ 10 * ticks - (dec.target - 500) \in -5..5
            /\ dec.requests =
                   << "data.json?heater=0&thermostat=0&setpoint=" \o ToString(ticks) >>

\* C15: set_override() with a target below 5.0 or above 30.0 raises
\* ValueError and requests nothing; 5.0 and 30.0, and the targets between
\* them, are accepted and requested.
C15_OutOfRangeRejected ==
    (dec.kind = "setpoint" /\ dec.done) =>
        IF dec.target < 500 \/ dec.target > 3000
        THEN dec.exc = "ValueError" /\ dec.requests = <<>>
        ELSE dec.exc = "" /\ Len(dec.requests) = 1

\* C15 witness: 30.01 has been refused with ValueError and without a request.
C15_Witness ==
    /\ dec.kind = "setpoint" /\ dec.done /\ dec.target = 3001
    /\ dec.exc = "ValueError"
    /\ dec.requests = <<>>

\* C21: with exactly one of username and password supplied, the call ends
\* in an error before any request is issued; with both supplied the request
\* goes to http://gw/protect/ with basic auth of the two, and with neither
\* supplied to http://gw/ without auth.
C21_PartialCredentialsRefused ==
    (dec.kind = "gateway" /\ dec.done) =>
        LET u == dec.username \notin {<<>>, <<"">>}
            p == dec.password \notin {<<>>, <<"">>}
        IN  /\ (u # p) => (dec.exc # "" /\ dec.requests = <<>>)
            /\ (u /\ p) =>
                   dec.requests =
                       << [url |-> "http://gw/protect/heaterlist.json",
                           auth |-> <<[login |-> dec.username[1],
                                       password |-> dec.password[1]]>>] >>
            /\ (~u /\ ~p /\ dec.username = <<>>) =>
                   dec.requests =
                       << [url |-> "http://gw/heaterlist.json", auth |-> <<>>] >>

----------------------------------------------------------------------------
(* The Heater *)

\* C13: an update() logs an unknown-code warning exactly when its displ_code
\* is absent from the applicable table and differs from the displ_code of the
\* immediately preceding update() that completed (from none, if there was
\* none): of consecutive updates with the same unknown code only the first
\* logs, and a change to another unknown code logs again.
C13_WarnOncePerChange ==
    (call.op = "update" /\ call.response.exc = "") =>
        (result.warnings = 1 <=> result.fresh)

\* the room numbers of a list of Rooms
RoomNos(l) == [i \in 1..Len(l) |-> l[i].room_no]

\* the numbers of a set of rooms, ascending
Ascending(S) == (IF 1 \in S THEN <<1>> ELSE <<>>) \o (IF 2 \in S THEN <<2>> ELSE <<>>)

\* the rooms whose room_temp pair in a payload is not (127, 255)
RoomsWithTemp(p) ==
    {n \in {1, 2} : << p["room_temp_" \o ToString(n) \o "_msb"],
                       p["room_temp_" \o ToString(n) \o "_lsb"] >> # <<127, 255>>}

\* the heaters of the cached list
HeaterIndices == IF gw_heaters = None THEN {} ELSE 1..Len(gw_heaters[1])

\* C7, as claimed: the rooms of a Heater, once built, are the rooms with a
\* room_temp in the payload of its first update() that completed (stated of
\* the heaters all of whose update() calls completed or failed in the request).
C7_RoomsFromFirstPayload ==
    \A k \in HeaterIndices :
        LET h == gw_heaters[1][k]
        IN  (h.rooms # None /\ ~h.torn) =>
                /\ h.first_rooms # None
                /\ RoomNos(h.rooms[1]) = Ascending(h.first_rooms[1])

\* C7, amended: rooms is built exactly once, by the first rooms access that
\* finds both room_temp pairs in the stored payload, as the ascending list of
\* the rooms n in {1, 2} whose room_temp_n pair in the payload stored at that
\* access is not the sentinel; every later access returns that same list, and
\* no later update() changes or rebuilds it.
C7_RoomsBuiltOnceAtFirstAccess ==
    [][ \A k \in HeaterIndices :
          (gw_heaters' # None /\ k <= Len(gw_heaters'[1])
           /\ gw_heaters'[1][k].oid = gw_heaters[1][k].oid) =>
              LET h == gw_heaters[1][k]
                  h2 == gw_heaters'[1][k]
              IN  /\ h.rooms # None => h2.rooms = h.rooms
                  /\ (h.rooms = None /\ h2.rooms # None) =>
                         /\ call'.op = "rooms" /\ call'.k = k
                         /\ h2.data = h.data
                         /\ RoomNos(h2.rooms[1]) = Ascending(RoomsWithTemp(h.data))
                  /\ (call'.op = "rooms" /\ call'.k = k /\ result'.exc = "") =>
                         h2.rooms = Some(result'.val)
      ]_vars

\* C7 witness: a rooms access has returned the cached [Room 1] although the
\* payload stored by a later update() has no room_temp_1 any more.
C7_Witness ==
    /\ call.op = "rooms" /\ result.exc = ""
    /\ RoomNos(result.val) = <<1>>
    /\ gw_heaters[1][call.k].rooms = Some(result.val)
    /\ gw_heaters[1][call.k].data["room_temp_1_msb"] = 127
    /\ gw_heaters[1][call.k].data["room_temp_1_lsb"] = 255

\* the last call was an update() that completed
UpdateCompleted == call.op = "update" /\ result.exc = ""

\* the pair of a payload in hundredths, None for the sentinel pair
Hundredths(p, stub) ==
    IF p[stub \o "_msb"] = 127 /\ p[stub \o "_lsb"] = 255 THEN None
    ELSE Some(p[stub \o "_msb"] * 256 + p[stub \o "_lsb"])

\* C8: an update() that completed has issued one request, the stored payload
\* is its response exactly (no field of an earlier payload is left), and the
\* readings, flags and passthrough integers of status are those of the
\* response.
C8_PayloadReplacedWholesale ==
    UpdateCompleted =>
        LET h == gw_heaters[1][call.k]
            p == call.response.val
        IN  /\ Len(requests) = 1
            /\ h.data = p
            /\ DOMAIN h.data = DOMAIN p
            /\ h.status["heater_temp"] = Hundredths(p, "ch_temp")
            /\ h.status["tap_temp"] = Hundredths(p, "tap_temp")
            /\ h.status["pressure"] = Hundredths(p, "ch_pressure")
            /\ h.status["is_failed"] = Bit(p["IO"], 0)
            /\ h.status["is_pumping"] = Bit(p["IO"], 1)
            /\ h.status["is_tapping"] = Bit(p["IO"], 2)
            /\ h.status["is_burning"] = Bit(p["IO"], 3)
            /\ \A key \in {"nodenr", "rf_message_rssi", "rfstatus_cntr"} :
                   h.status[key] = IF key \in DOMAIN p THEN Some(p[key]) ELSE None

\* C8 witness: an update() has completed on a response without nodenr, on a
\* heater whose cached rooms are [Room 1]: they were built from an earlier
\* payload, and every payload with a room_temp_1 has a nodenr.
C8_Witness ==
    /\ UpdateCompleted
    /\ "nodenr" \notin DOMAIN gw_heaters[1][call.k].data
    /\ gw_heaters[1][call.k].status["nodenr"] = None
    /\ gw_heaters[1][call.k].rooms # None
    /\ RoomNos(gw_heaters[1][call.k].rooms[1]) = <<1>>

StatusKeys ==
    {"display_code", "display_text", "fault_code", "is_burning", "is_failed",
     "is_pumping", "is_tapping", "heater_temp", "tap_temp", "pressure",
     "serial_no", "nodenr", "rf_message_rssi", "rfstatus_cntr"}

\* C9: after an update() that completed, status has exactly the 14 keys,
\* serial_no is the serial of the heater's slot in the heater list, and
\* fault_code is non-null only if bit 0 of IO is set.
C9_StatusKeysAndFaultCode ==
    UpdateCompleted =>
        LET h == gw_heaters[1][call.k]
        IN  /\ DOMAIN h.status = StatusKeys
            /\ h.status["serial_no"] = fetched[1][h.heater_idx + 1][1]
            /\ h.status["fault_code"] # None => Bit(h.data["IO"], 0)
            /\ h.fault_code # None => Bit(h.data["IO"], 0)

\* C9 witness: an update() has completed on a failed heater whose response
\* has no nodenr: status has a fault_code and a null nodenr.
C9_Witness ==
    /\ UpdateCompleted
    /\ gw_heaters[1][call.k].status["fault_code"] = Some(1)
    /\ gw_heaters[1][call.k].status["is_failed"]
    /\ gw_heaters[1][call.k].status["nodenr"] = None

\* the labels of the codes 0, 1 and 126 in the two tables
FaultLabels ==
    (0 :> "sensor_fault_after_self_check_e0") @@ (1 :> "cv_temperature_too_high_e1")
DisplayLabels == (0 :> "opentherm") @@ (126 :> "standby")

\* C10: after an update() that completed, display_text is the label of
\* displ_code in the fault-code table if bit 0 of IO is set, and its label in
\* the display-code table otherwise (126 not failed: "standby"; 0: the fault
\* label if failed, "opentherm" if not).
C10_DisplayTextByFailedBit ==
    UpdateCompleted =>
        LET h == gw_heaters[1][call.k]
            code == h.data["displ_code"]
            failed == Bit(h.data["IO"], 0)
        IN  /\ (failed /\ code \in DOMAIN FaultLabels) =>
                   h.status["display_text"] = Some(FaultLabels[code])
            /\ (~failed /\ code \in DOMAIN DisplayLabels) =>
                   h.status["display_text"] = Some(DisplayLabels[code])
            /\ display_text(h) = Ret(h.status["display_text"])

\* C10 witness: a failed heater with displ_code 0 shows the fault label.
C10_Witness ==
    /\ UpdateCompleted
    /\ gw_heaters[1][call.k].data["displ_code"] = 0
    /\ gw_heaters[1][call.k].status["is_failed"]
    /\ gw_heaters[1][call.k].status["display_text"] = Some("sensor_fault_after_self_check_e0")

----------------------------------------------------------------------------
(* The Room *)

\* C16: a set_override() whose target is accepted issues exactly one request,
\* whether it is answered or not, addressed with heater=<the 0-based position
\* of the parent's slot in the heater list> and thermostat=<room_no - 1>.
C16_OverrideAddressesRoom ==
    (call.op = "set_override" /\ call.target >= 500 /\ call.target <= 3000) =>
        /\ Len(requests) = 1
        /\ \E ticks \in 0..250 :
               requests[1] =
                   "data.json?heater="
                       \o ToString(KthBoundSlot(fetched[1], call.k) - 1)
                       \o "&thermostat=" \o ToString(call.room_no - 1)
                       \o "&setpoint=" \o ToString(ticks)

\* C16 witness: set_override(19.5) on Room 2, the only Room of the heater in
\* slot 1, has requested heater=1&thermostat=1.
C16_Witness ==
    /\ call.op = "set_override" /\ call.room_no = 2
    /\ RoomNos(gw_heaters[1][call.k].rooms[1]) = <<2>>
    /\ requests = <<"data.json?heater=1&thermostat=1&setpoint=145">>

\* C17: set_override() changes nothing of the local state, whether it is
\* refused, fails in its request or is answered: the heater list, and with it
\* the payload, status, display_code, fault_code and rooms of the parent,
\* are as before, and so is what Room.override returns.
C17_SetOverrideKeepsLocalState ==
    [][ call'.op = "set_override" =>
          /\ gw_heaters' = gw_heaters
          /\ \A n \in {1, 2} :
                 override(Room(n, gw_heaters'[1][call'.k]), gw_heaters'[1][call'.k])
                     = override(Room(n, gw_heaters[1][call'.k]), gw_heaters[1][call'.k])
      ]_vars

\* C17 witness: set_override(19.5) on Room 1 has been answered, and the
\* override of Room 1 is still 0.0.
C17_Witness ==
    /\ call.op = "set_override" /\ call.room_no = 1 /\ call.target = 1950
    /\ result.exc = "" /\ Len(requests) = 1
    /\ ~gw_heaters[1][call.k].torn
    /\ override(Room(1, gw_heaters[1][call.k]), gw_heaters[1][call.k]) = Ret(Some(0))

\* the paired field of a reading of room n, and whether a payload has it
RoomStub(attr, n) ==
    CASE attr = "room_temp" -> "room_temp_" \o ToString(n)
      [] attr = "setpoint" -> "room_temp_set_" \o ToString(n)
      [] attr = "override" -> "room_set_ovr_" \o ToString(n)

PairPresent(p, stub) == {stub \o "_msb", stub \o "_lsb"} \subseteq DOMAIN p

RoomAttrs == {"room_temp", "setpoint", "override"}

\* C18: what a Room returns for room_temp, setpoint, override and status is
\* the decoding of the payload its parent Heater holds at the time of the
\* read, for every paired field that payload has.
C18_RoomReadsCurrentPayload ==
    call.op = "room_read" =>
        LET p == gw_heaters[1][call.k].data
            n == call.room_no
        IN  IF call.attr = "status"
            THEN (\A a \in RoomAttrs : PairPresent(p, RoomStub(a, n))) =>
                     result = Ret([a \in RoomAttrs |-> Hundredths(p, RoomStub(a, n))])
            ELSE PairPresent(p, RoomStub(call.attr, n)) =>
                     result = Ret(Hundredths(p, RoomStub(call.attr, n)))

\* C18 witness: the status of Room 1 has been read with a null room_temp and
\* an override of 19.5: Room 1 was created under a payload with a room_temp_1,
\* and the payload stored since has none.
C18_Witness ==
    /\ call.op = "room_read" /\ call.attr = "status" /\ call.room_no = 1
    /\ result.exc = ""
    /\ result.val["room_temp"] = None
    /\ result.val["override"] = Some(1950)

\* C19: room_temp, setpoint and override return without raising, null when
\* the paired field of the parent's payload is (127, 255) and null when the
\* payload has no such field; status returns a record with exactly the keys
\* room_temp, setpoint and override.
C19_RoomReadingsNeverRaise ==
    call.op = "room_read" =>
        LET p == gw_heaters[1][call.k].data
            n == call.room_no
            Null(a) == \/ ~PairPresent(p, RoomStub(a, n))
                       \/ Hundredths(p, RoomStub(a, n)) = None
        IN  /\ result.exc = ""
            /\ IF call.attr = "status"
               THEN /\ DOMAIN result.val = RoomAttrs
                    /\ \A a \in RoomAttrs : Null(a) => result.val[a] = None
               ELSE Null(call.attr) => result.val = None

\* the k-th heater has had no update() that completed
NeverUpdated(k) == gw_heaters[1][k].ok_code = None

\* C20: on a Heater without a completed update(), reading status, rooms or
\* any attribute of the status record but serial_no raises KeyError.
C20_StaleReadFails ==
    /\ (call.op = "read" /\ call.attr # "serial_no" /\ NeverUpdated(call.k)) =>
           result.exc = "KeyError"
    /\ (call.op = "rooms" /\ NeverUpdated(call.k)) => result.exc = "KeyError"

----------------------------------------------------------------------------
(* Failures of the transport *)

\* C22: an update() or a set_override() whose request fails in transport
\* ends in InvalidGateway, after exactly one request.
C22_TransportFailureIsInvalidGateway ==
    (call.op \in {"update", "set_override"} /\ call.response.exc # "") =>
        /\ result.exc = "InvalidGateway"
        /\ Len(requests) = 1

----------------------------------------------------------------------------
(* The snapshot of a Heater against its payload *)

\* the code attribute that a payload gives for a table: the code itself if
\* it is a member, -1 (UNKNOWN) if not
CodeIn(table, code) == IF code \in DOMAIN table THEN <<code>> ELSE <<-1>>

\* status, display_code and fault_code of a Heater are those that its stored
\* payload gives
DerivedFromPayload(h) ==
    LET p == h.data
    IN  /\ {"displ_code", "IO"} \subseteq DOMAIN p
        /\ \A stub \in {"ch_temp", "tap_temp", "ch_pressure"} : PairPresent(p, stub)
        /\ DOMAIN h.status = StatusKeys
        /\ h.status["heater_temp"] = Hundredths(p, "ch_temp")
        /\ h.status["tap_temp"] = Hundredths(p, "tap_temp")
        /\ h.status["pressure"] = Hundredths(p, "ch_pressure")
        /\ h.status["is_failed"] = Bit(p["IO"], 0)
        /\ h.status["is_pumping"] = Bit(p["IO"], 1)
        /\ h.status["is_tapping"] = Bit(p["IO"], 2)
        /\ h.status["is_burning"] = Bit(p["IO"], 3)
        /\ \A key \in {"nodenr", "rf_message_rssi", "rfstatus_cntr"} :
               h.status[key] = IF key \in DOMAIN p THEN <<p[key]>> ELSE <<>>
        /\ h.display_code =
               IF Bit(p["IO"], 0) THEN <<>> ELSE CodeIn(DisplayCode, p["displ_code"])
        /\ h.fault_code =
               IF Bit(p["IO"], 0) THEN CodeIn(FaultCode, p["displ_code"]) ELSE <<>>
        /\ h.status["display_code"] = h.display_code
        /\ h.status["fault_code"] = h.fault_code

\* status, display_code and fault_code of a Heater are as __init__ left them
NeverUpdatedSnapshot(h) ==
    h.status = EmptyDict /\ h.display_code = <<>> /\ h.fault_code = <<>>

\* C25: in every state, whatever update() calls were made and however they
\* ended, the status, display_code and fault_code of each Heater are either
\* all as __init__ left them or all those that the stored payload gives.
C25_SnapshotMatchesPayload ==
    \A k \in HeaterIndices :
        \/ NeverUpdatedSnapshot(gw_heaters[1][k])
        \/ DerivedFromPayload(gw_heaters[1][k])

\* C26: in every state, once the rooms of a Heater are built, they are the
\* rooms n in {1, 2} whose room_temp_n in the payload the Heater stores now
\* is not null, each once, in ascending order (stated of the heaters all of
\* whose update() calls completed or failed in the request, and of payloads
\* that have both room_temp pairs).
C26_RoomsMatchPayload ==
    \A k \in HeaterIndices :
        LET h == gw_heaters[1][k]
        IN  (/\ h.rooms # None /\ ~h.torn
             /\ PairPresent(h.data, "room_temp_1")
             /\ PairPresent(h.data, "room_temp_2")) =>
                RoomNos(h.rooms[1]) = Ascending(RoomsWithTemp(h.data))

----------------------------------------------------------------------------
(* update() calls in flight together *)

\* C27: when update() calls on one Heater were suspended together and all
\* of them have ended, the payload the Heater stores is the response of the
\* call that was resumed last, and its status, display_code, fault_code and
\* last-seen displ_code are those that this payload gives (stated of a last
\* call that got a response).
C27_LastResumedWins ==
    (/\ pending = <<>>
     /\ call.op = "update" /\ call.overlapped
     /\ call.response.exc = "") =>
        LET h == gw_heaters[1][call.k]
        IN  /\ h.data = call.response.val
            /\ DerivedFromPayload(h)
            /\ h.last_display_code = <<h.data["displ_code"]>>

====
